---- MODULE Spec2Model ----
(***************************************************************************)
(* A model of the user key/value service: the worker of ukv_worker.py, the *)
(* statements of ukv_prepared_statments.py and the endpoints of app.py.    *)
(*                                                                         *)
(* A key is a sequence of one-character strings.  A JSON document is a     *)
(* tagged record (see JNull .. JDict); its text is a sequence of tokens.   *)
(***************************************************************************)
EXTENDS Integers, Sequences, FiniteSets, TLC

VARIABLES
    store,      \* the rows of table user_key_value (committed)
    clock,      \* the data store's NOW()
    pc,         \* per worker thread: where its current request stands
    req,        \* per worker thread: the request being served
    out,        \* per worker thread: what the endpoint's worker call produced
    conn,       \* per worker thread: its database connection
    txn,        \* per worker thread: the open transaction of its connection
    pre,        \* per worker thread: the rows of the table when the request began
    kvIn,       \* key validation alone: the key list handed to the validator
    kvOut,      \* key validation alone: what the validator answered
    helperInstances,  \* construction alone: the AuthHelper instances created so far
    ctor        \* construction alone: per thread, where its UserKeyValueWorker() stands

vars == <<store, clock, pc, req, out, conn, txn, pre, kvIn, kvOut, helperInstances, ctor>>

(***************************************************************************)
(* Bounds of the model.                                                    *)
(***************************************************************************)
MaxClock == 1       \* the last value of NOW()
MaxListLen == 2     \* entries of a request's JSON list
MaxKeyChars == 3    \* characters of the keys enumerated for key validation

(***************************************************************************)
(* Sequence helpers.                                                       *)
(***************************************************************************)
Range(s) == {s[i] : i \in DOMAIN s}

SeqsUpTo(S, n) == UNION {[1..m -> S] : m \in 0..n}

RECURSIVE Concat(_)
Concat(ss) == IF ss = <<>> THEN <<>> ELSE Head(ss) \o Concat(Tail(ss))

\* Python: sep.join(parts)
RECURSIVE Join(_, _)
Join(sep, parts) ==
    IF parts = <<>> THEN <<>>
    ELSE IF Len(parts) = 1 THEN parts[1]
    ELSE parts[1] \o sep \o Join(sep, Tail(parts))

(***************************************************************************)
(* Key validation: UserKeyValueWorker.validate_key, _validate_key_list.    *)
(***************************************************************************)
MaxKeyLen == 50

\* the characters the pattern \s matches, among those of the model
WhitespaceChars == {" ", "\t", "\n"}

\* the character class of the third check; "GRAVE" stands for the grave
\* accent, which a TLA+ string cannot hold
DisallowedChars == {"'", "\"", "GRAVE", "#", "_", "%"}

\* the alternation of the fourth check
DisallowedSeqs == {<<"-", "-">>, <<"*", "/">>, <<"/", "*">>}

\* re.match('.*X.*', key) for a one-character class X: '.' matches anything
\* but a newline, and the match is anchored at the start of the key only.
ReMatchClass(key, class) ==
    \E i \in 1..Len(key) :
        /\ key[i] \in class
        /\ \A j \in 1..(i - 1) : key[j] # "\n"

\* re.match('.*(s1|s2|..).*', key) for two-character sequences
ReMatchSeqs(key, seqs) ==
    \E i \in 1..(Len(key) - 1) :
        /\ <<key[i], key[i + 1]>> \in seqs
        /\ \A j \in 1..(i - 1) : key[j] # "\n"

KeyOk == [rule |-> "ok", key |-> <<>>]

\* The UKVKeyFormatException of a key: which check raised it, and the key
\* its message names.
KeyFormatError(rule, key) == [rule |-> rule, key |-> key]

validate_key(a_key) ==
    IF Len(a_key) > MaxKeyLen THEN KeyFormatError("length", a_key)
    ELSE IF ReMatchClass(a_key, WhitespaceChars) THEN KeyFormatError("whitespace", a_key)
    ELSE IF ReMatchClass(a_key, DisallowedChars) THEN KeyFormatError("character", a_key)
    ELSE IF ReMatchSeqs(a_key, DisallowedSeqs) THEN KeyFormatError("sequence", a_key)
    ELSE KeyOk

\* dict[k] = v
DictPut(d, k, v) == [x \in (DOMAIN d) \cup {k} |-> IF x = k THEN v ELSE d[x]]

EmptyDict == [x \in {} |-> KeyOk]

\* the for loop of _validate_key_list, from entry i on
RECURSIVE ValidateLoop(_, _, _)
ValidateLoop(key_list, i, invalid_key_name_dict) ==
    IF i > Len(key_list) THEN invalid_key_name_dict
    ELSE LET ukfe == validate_key(key_list[i])
         IN  ValidateLoop(key_list, i + 1,
                 IF ukfe # KeyOk
                 THEN DictPut(invalid_key_name_dict, key_list[i], ukfe)
                 ELSE invalid_key_name_dict)

\* the same loop leaving at the first key that fails
RECURSIVE ValidateLoopFirstOnly(_, _, _)
ValidateLoopFirstOnly(key_list, i, invalid_key_name_dict) ==
    IF i > Len(key_list) THEN invalid_key_name_dict
    ELSE LET ukfe == validate_key(key_list[i])
         IN  IF ukfe # KeyOk
             THEN DictPut(invalid_key_name_dict, key_list[i], ukfe)
             ELSE ValidateLoopFirstOnly(key_list, i + 1, invalid_key_name_dict)

ListOk == [kind |-> "ok", count |-> 0, error_by_key |-> EmptyDict]

BadKeyList(d) ==
    [kind |-> "BadKeyList", count |-> Cardinality(DOMAIN d), error_by_key |-> d]

validate_key_list_first_only(key_list) ==
    LET invalid_key_name_dict == ValidateLoopFirstOnly(key_list, 1, EmptyDict)
    IN  IF DOMAIN invalid_key_name_dict # {}
        THEN BadKeyList(invalid_key_name_dict)
        ELSE ListOk

validate_key_list(key_list) ==
    LET invalid_key_name_dict == ValidateLoop(key_list, 1, EmptyDict)
    IN  IF DOMAIN invalid_key_name_dict # {}
        THEN BadKeyList(invalid_key_name_dict)
        ELSE ListOk

\* what the validator answered: call is the method called, one the answer of
\* validate_key, list the answer of _validate_key_list
NoValidation == [call |-> "none", one |-> KeyOk, list |-> ListOk]

(***************************************************************************)
(* JSON documents as Python holds them after Request.get_json(), and their *)
(* text as json.dumps writes it.                                           *)
(***************************************************************************)
JBase == [t |-> "NoneType", n |-> 0, s |-> <<>>, names |-> <<>>, items |-> <<>>]

JNull == JBase
JInt(n) == [JBase EXCEPT !.t = "int", !.n = n]
JStr(s) == [JBase EXCEPT !.t = "str", !.s = s]
JList(items) == [JBase EXCEPT !.t = "list", !.items = items]
JDict(names, items) == [JBase EXCEPT !.t = "dict", !.names = names, !.items = items]

\* a request body that is no JSON text: get_json() raises BadRequest
JBadRequest == [JBase EXCEPT !.t = "BadRequest"]

\* Python: len(v) of a list, a dict or a str
PyLen(v) == IF v.t = "str" THEN Len(v.s) ELSE Len(v.items)

\* Python: name in v, v[name] of a dict
HasMember(v, name) == \E i \in 1..Len(v.names) : v.names[i] = name
Member(v, name) == v.items[CHOOSE i \in 1..Len(v.names) : v.names[i] = name]

\* json.dumps(v): the text, one token per character (a member name and a
\* number are one token each)
RECURSIVE Dumps(_)
Dumps(v) ==
    CASE v.t = "NoneType" -> <<"n", "u", "l", "l">>
      [] v.t = "int" -> <<ToString(v.n)>>
      [] v.t = "str" -> <<"\"">> \o v.s \o <<"\"">>
      [] v.t = "list" ->
            <<"[">> \o Join(<<",", " ">>, [i \in 1..Len(v.items) |-> Dumps(v.items[i])])
                    \o <<"]">>
      [] v.t = "dict" ->
            <<"{">> \o Join(<<",", " ">>,
                            [i \in 1..Len(v.items) |->
                                <<"\"", v.names[i], "\"", ":", " ">> \o Dumps(v.items[i])])
                    \o <<"}">>

\* Documents of the model.
Obj1 == JDict(<<"x">>, <<JInt(1)>>)
Arr1 == JList(<<JInt(1)>>)
EmptyObj == JDict(<<>>, <<>>)
EmptyArr == JList(<<>>)

\* every document a row of the model can hold
StoredDocs == {Obj1, Arr1, EmptyObj, EmptyArr, JNull, JInt(1)}

\* json.loads(text), for the texts json.dumps wrote
Loads(text) == CHOOSE v \in StoredDocs : Dumps(v) = text

(***************************************************************************)
(* The table user_key_value and the statements run against it.  A row is   *)
(* [id, key, value, ts]: GLOBUS_IDENTITY_ID, KEY_NAME, KEY_VALUE (text),   *)
(* UPSERT_UTC_TIME.                                                        *)
(***************************************************************************)
LowerChar(c) ==
    CASE c = "A" -> "a"
      [] c = "B" -> "b"
      [] c = "F" -> "f"
      [] c = "O" -> "o"
      [] OTHER -> c

\* Python: str.lower()
Lower(k) == [i \in 1..Len(k) |-> LowerChar(k[i])]

\* KEY_NAME = %s under the collation of the column: case-insensitive
KeyNameEq(k1, k2) == Lower(k1) = Lower(k2)

Row(id, key, value, ts) == [id |-> id, key |-> key, value |-> value, ts |-> ts]

\* the rows the unique key (GLOBUS_IDENTITY_ID, KEY_NAME) sets against a new row
Duplicates(rows, id, key) == {r \in rows : r.id = id /\ KeyNameEq(r.key, key)}

\* INSERT IGNORE: a row that meets a duplicate is dropped
SQL_UPSERT_USERID_KEY_VALUE_ignore(rows, id, key, value, now) ==
    IF Duplicates(rows, id, key) # {} THEN rows ELSE rows \cup {Row(id, key, value, now)}

\* INSERT one row into a table that keeps the rows it held
SQL_UPSERT_USERID_KEY_VALUE_insert(rows, id, key, value, now) ==
    rows \cup {Row(id, key, value, now)}

\* an upsert that sets UPSERT_UTC_TIME on every row of the identity
SQL_UPSERT_USERID_KEY_VALUE_touching(rows, id, key, value, now) ==
    {IF r.id = id THEN [r EXCEPT !.ts = now] ELSE r : r \in rows \ Duplicates(rows, id, key)}
        \cup {Row(id, key, value, now)}

\* INSERT one row, ON DUPLICATE KEY UPDATE all its columns
SQL_UPSERT_USERID_KEY_VALUE(rows, id, key, value, now) ==
    (rows \ Duplicates(rows, id, key)) \cup {Row(id, key, value, now)}

SQL_SELECT_USERID_KEY_VALUE(rows, id, key) ==
    {r \in rows : r.id = id /\ KeyNameEq(r.key, key)}

\* the SELECT without its WHERE clause
SQL_SELECT_USERID_ALL_any_user(rows, id) == rows

SQL_SELECT_USERID_ALL(rows, id) == {r \in rows : r.id = id}

\* the DELETE without its condition on KEY_NAME
SQL_DELETE_USERID_KEY_VALUE_any_key(rows, id, key) == rows \ {r \in rows : r.id = id}

SQL_DELETE_USERID_KEY_VALUE(rows, id, key) ==
    rows \ {r \in rows : r.id = id /\ KeyNameEq(r.key, key)}

\* the SELECT without its condition on GLOBUS_IDENTITY_ID
SQL_SELECT_USERID_NAMED_KEY_VALUES_any_user(rows, id, keys) ==
    {r \in rows : \E i \in 1..Len(keys) : KeyNameEq(r.key, keys[i])}

\* KEY_NAME IN (%s, .., %s) with the keys bound
SQL_SELECT_USERID_NAMED_KEY_VALUES(rows, id, keys) ==
    {r \in rows : r.id = id /\ \E i \in 1..Len(keys) : KeyNameEq(r.key, keys[i])}

\* the statement built with the placeholders of one tuple only
SQL_UPSERT_USERID_KEY_VALUES_first_tuple(rows, id, params, now) ==
    IF Len(params) < 2 THEN rows
    ELSE SQL_UPSERT_USERID_KEY_VALUE(rows, id, params[1], params[2], now)

\* INSERT of the tuples in order, each ON DUPLICATE KEY UPDATE;
\* params is the bound list key_1, value_1, key_2, value_2, ..
RECURSIVE SQL_UPSERT_USERID_KEY_VALUES(_, _, _, _)
SQL_UPSERT_USERID_KEY_VALUES(rows, id, params, now) ==
    IF Len(params) < 2 THEN rows
    ELSE SQL_UPSERT_USERID_KEY_VALUES(
             SQL_UPSERT_USERID_KEY_VALUE(rows, id, params[1], params[2], now),
             id, SubSeq(params, 3, Len(params)), now)

(***************************************************************************)
(* Requests and what a worker call produces.                               *)
(***************************************************************************)
\* what AuthHelper.getUserInfoUsingRequest gives for a request
UserInfo(sub) == [t |-> "dict", sub |-> sub]
UserInfoNoSub == [t |-> "dict", sub |-> "absent"]
AuthResponse == [t |-> "Response", sub |-> "absent"]

\* another Response of the identity service; of a Response, sub tells which
\* response object it is
AuthResponseOther == [t |-> "Response", sub |-> "other"]

NoRequest ==
    [op |-> "none", auth |-> AuthResponse, key |-> <<>>, is_json |-> FALSE, body |-> JNull]

Request(op, auth, key, is_json, body) ==
    [op |-> op, auth |-> auth, key |-> key, is_json |-> is_json, body |-> body]

\* kind: "ok" (the call returned its result), "Response" (it returned the
\* identity failure), "proceed" (nothing raised so far), else the exception
\* raised.  text: the value get returns; entries: the list find-named and
\* get-all return; unfound, errors, count: the data of the two list errors
\* and the count upsert-many reports; why: which raise statement it was.
NoOut ==
    [kind |-> "none", why |-> "none", text |-> <<>>, entries |-> {},
     unfound |-> <<>>, errors |-> EmptyDict, count |-> 0]

Proceed == [NoOut EXCEPT !.kind = "proceed"]
Returned(why) == [NoOut EXCEPT !.kind = "ok", !.why = why]
Raised(kind, why) == [NoOut EXCEPT !.kind = kind, !.why = why]

(***************************************************************************)
(* The steps of the worker that come before the data store.                *)
(***************************************************************************)
\* the Response object of the identity service, handed on as it is
ResponseOf(auth) == [NoOut EXCEPT !.kind = "Response", !.why = auth.sub]

\* _get_globus_id_for_request
get_globus_id_for_request(r) ==
    IF r.auth.t = "Response" THEN ResponseOf(r.auth)
    ELSE IF r.auth.sub = "absent" THEN Raised("DataStoreQuery", "no sub")
    ELSE Proceed

\* the same checks with the body examined before the content type
load_endpoint_json_body_first(r, endpoint_types) ==
    IF r.body.t = "BadRequest" THEN Raised("ValueFormat", "not JSON")
    ELSE IF r.body = JNull THEN Raised("ValueFormat", "empty")
    ELSE IF ~r.is_json THEN Raised("RequestFormat", "content type")
    ELSE IF r.body.t \notin endpoint_types THEN Raised("ValueFormat", "type")
    ELSE IF PyLen(r.body) <= 0 THEN Raised("ValueFormat", "empty")
    ELSE Proceed

\* _load_endpoint_json
load_endpoint_json(r, endpoint_types) ==
    IF ~r.is_json THEN Raised("RequestFormat", "content type")
    ELSE IF r.body.t = "BadRequest" THEN Raised("ValueFormat", "not JSON")
    ELSE IF r.body = JNull THEN Raised("ValueFormat", "empty")
    ELSE IF r.body.t \notin endpoint_types THEN Raised("ValueFormat", "type")
    ELSE IF PyLen(r.body) <= 0 THEN Raised("ValueFormat", "empty")
    ELSE Proceed

\* _validate_key_list on the entries of a JSON list: len() and re.match()
\* raise TypeError on an entry that is no string
validate_json_key_list(items) ==
    IF \E i \in 1..Len(items) : items[i].t # "str"
    THEN Raised("TypeError", "key is no string")
    ELSE LET r == validate_key_list([i \in 1..Len(items) |-> items[i].s])
         IN  IF r.kind = "ok" THEN Proceed
             ELSE [Raised("BadKeyList", "invalid keys") EXCEPT
                       !.errors = r.error_by_key, !.count = r.count]

\* the keys of new_user_key_value_dict, in the order of their first insertion
RECURSIVE DictKeys(_)
DictKeys(keyItems) ==
    IF keyItems = <<>> THEN <<>>
    ELSE LET rest == DictKeys(SubSeq(keyItems, 1, Len(keyItems) - 1))
             last == keyItems[Len(keyItems)]
         IN  IF \E i \in 1..Len(rest) : rest[i] = last THEN rest ELSE Append(rest, last)

\* the for loop of upsert_key_values from entry i on: what it raises, if anything
RECURSIVE PairLoop(_, _)
PairLoop(list, i) ==
    IF i > Len(list) THEN Proceed
    ELSE LET kv_dict == list[i]
         IN  IF kv_dict.t # "dict" THEN Raised("ValueFormat", "pair")
             ELSE IF ~HasMember(kv_dict, "key") \/ ~HasMember(kv_dict, "value")
                  THEN Raised("ValueFormat", "pair")
             ELSE IF Len(Dumps(Member(kv_dict, "value"))) <= 0
                  THEN Raised("ValueFormat", "empty value")
             ELSE IF Member(kv_dict, "key").t \in {"list", "dict"}
                  THEN Raised("TypeError", "unhashable key")
             ELSE PairLoop(list, i + 1)

\* param_list of upsert_key_values: key_1, json.dumps(value_1), key_2, ..
ParamList(list) ==
    Concat([i \in 1..Len(list) |->
               <<Member(list[i], "key").s, Dumps(Member(list[i], "value"))>>])

\* upsert_key_values up to the connection
upsert_key_values_checks(r) ==
    LET id == get_globus_id_for_request(r)
        payload == load_endpoint_json(r, {"list"})
        loop == PairLoop(r.body.items, 1)
    IN  IF id.kind # "proceed" THEN id
        ELSE IF payload.kind # "proceed" THEN payload
        ELSE IF loop.kind # "proceed" THEN loop
        ELSE validate_json_key_list(
                 DictKeys([i \in 1..Len(r.body.items) |-> Member(r.body.items[i], "key")]))

\* find_named_key_values up to the connection
find_named_key_values_checks(r) ==
    LET id == get_globus_id_for_request(r)
        payload == load_endpoint_json(r, {"list"})
    IN  IF id.kind # "proceed" THEN id
        ELSE IF payload.kind # "proceed" THEN payload
        ELSE validate_json_key_list(r.body.items)

\* the same with the payload read before the identity is resolved
upsert_key_value_checks_payload_first(r) ==
    LET e_400 == validate_key(r.key)
        id == get_globus_id_for_request(r)
        payload == load_endpoint_json(r, {"list", "dict"})
    IN  IF e_400 # KeyOk THEN Raised("KeyFormat", e_400.rule)
        ELSE IF payload.kind # "proceed" THEN payload
        ELSE id

\* app.upsert_key_value and UserKeyValueWorker.upsert_key_value up to the connection
upsert_key_value_checks(r) ==
    LET e_400 == validate_key(r.key)
        id == get_globus_id_for_request(r)
        payload == load_endpoint_json(r, {"list", "dict"})
    IN  IF e_400 # KeyOk THEN Raised("KeyFormat", e_400.rule)
        ELSE IF id.kind # "proceed" THEN id
        ELSE payload

\* app.get_key_value / app.delete_key_value and the worker's method up to
\* the connection
single_key_checks(r) ==
    LET kfe == validate_key(r.key)
    IN  IF kfe # KeyOk THEN Raised("KeyFormat", kfe.rule)
        ELSE get_globus_id_for_request(r)

\* get_all_key_values up to the connection
get_all_key_values_checks(r) == get_globus_id_for_request(r)

ChecksBeforeStore(r) ==
    CASE r.op = "get" -> single_key_checks(r)
      [] r.op = "delete" -> single_key_checks(r)
      [] r.op = "upsert" -> upsert_key_value_checks(r)
      [] r.op = "upsert_many" -> upsert_key_values_checks(r)
      [] r.op = "find" -> find_named_key_values_checks(r)
      [] r.op = "all" -> get_all_key_values_checks(r)

(***************************************************************************)
(* The worker threads, their connections and transactions.                 *)
(***************************************************************************)
Procs == {"w1", "w2"}

\* acquired, executed, errors, rollbacks: connections acquired, statements
\* executed, errors the data store reported to a statement or a commit, and
\* calls of rollback() while serving the current request; lookups: calls of
\* the identity service while serving it; during: the other threads whose
\* current call was in progress at some moment of this call
NoConn ==
    [open |-> FALSE, autocommit |-> TRUE, existing |-> TRUE,
     acquired |-> 0, executed |-> 0, errors |-> 0, rollbacks |-> 0, lookups |-> 0,
     during |-> {}]

\* the calls of getUserInfoUsingRequest a request causes: one, unless the
\* endpoint rejects the key of the URL before it calls the worker
IdentityLookups(r) ==
    IF r.op \in {"get", "delete", "upsert"} /\ validate_key(r.key) # KeyOk THEN 0 ELSE 1

\* stmt: the statement executed and not yet committed; now: its NOW();
\* rowcount: curs.rowcount; text, params: the text handed to curs.execute,
\* one token per word, and the parameters bound to it
NoTxn == [stmt |-> "none", now |-> 0, rowcount |-> 0, text |-> <<>>, params |-> <<>>]

ReadOps == {"get", "find", "all"}
WriteOps == {"upsert", "upsert_many", "delete"}

\* globus_id of a request whose identity resolved
GlobusId(r) == r.auth.sub

\* a data store that takes no row locks
LocksNotTaken(p) == TRUE

\* the rows of the table after the statement of write request r
StatementEffect(rows, r, now) ==
    CASE r.op = "upsert" ->
            SQL_UPSERT_USERID_KEY_VALUE(rows, GlobusId(r), r.key, Dumps(r.body), now)
      [] r.op = "upsert_many" ->
            SQL_UPSERT_USERID_KEY_VALUES(rows, GlobusId(r), ParamList(r.body.items), now)
      [] r.op = "delete" ->
            SQL_DELETE_USERID_KEY_VALUE(rows, GlobusId(r), r.key)
      [] OTHER -> rows

\* new_tuple_placeholder: the f-string writes globus_id into the text,
\* between quotes, and leaves two placeholders
new_tuple_placeholder(globus_id) ==
    <<"(", "'", globus_id, "'", ",", "%s", ",", "%s", ",", "NOW()", ")">>

\* SQL_UPSERT_USERID_KEY_VALUES_str with generated_placeholders_for_new_tuples
\* replaced by n tuples
upsert_key_values_stmt(globus_id, n) ==
    <<"INSERT INTO user_key_value", "VALUES">>
        \o Join(<<",">>, [i \in 1..n |-> new_tuple_placeholder(globus_id)])
        \o <<"AS ukv", "ON DUPLICATE KEY UPDATE">>

\* the text of the statement of write request r
StatementText(r) ==
    CASE r.op = "upsert" ->
            <<"INSERT INTO user_key_value", "VALUES",
              "(", "%s", ",", "%s", ",", "%s", ",", "NOW()", ")",
              "AS ukv", "ON DUPLICATE KEY UPDATE">>
      [] r.op = "upsert_many" -> upsert_key_values_stmt(GlobusId(r), Len(r.body.items))
      [] r.op = "delete" ->
            <<"DELETE FROM user_key_value", "WHERE",
              "GLOBUS_IDENTITY_ID", "=", "%s", "AND", "KEY_NAME", "=", "%s">>
      [] OTHER -> <<>>

\* the parameters bound to it, each a sequence of characters or tokens
StatementParams(r) ==
    CASE r.op = "upsert" -> <<<<GlobusId(r)>>, r.key, Dumps(r.body)>>
      [] r.op = "upsert_many" -> ParamList(r.body.items)
      [] r.op = "delete" -> <<<<GlobusId(r)>>, r.key>>
      [] OTHER -> <<>>

\* the (identity, key) pairs whose rows or gaps the statement of r locks
WriteKeys(r) ==
    CASE r.op = "upsert_many" ->
            LET params == ParamList(r.body.items)
            IN  {<<GlobusId(r), Lower(params[i])>> :
                    i \in {j \in 1..Len(params) : j % 2 = 1}}
      [] OTHER -> {<<GlobusId(r), Lower(r.key)>>}

\* no other transaction holds a lock the statement of p needs
LocksFree(p) ==
    \A q \in Procs \ {p} :
        txn[q].stmt # "none" => WriteKeys(req[q]) \cap WriteKeys(req[p]) = {}

\* get_key_value once the rows are fetched
get_key_value_result(rows, r) ==
    LET found == SQL_SELECT_USERID_KEY_VALUE(rows, GlobusId(r), r.key)
    IN  IF found = {} THEN {Raised("KeyNotFound", "no row")}
        ELSE {[Returned("value") EXCEPT !.text = res.value] : res \in found}

\* the same list with every key in lower case
KeyValueListLowered(res) ==
    {[key |-> Lower(ukv.key), value |-> Loads(ukv.value)] : ukv \in res}

\* the list both list reads build from the rows fetched
KeyValueList(res) == {[key |-> ukv.key, value |-> Loads(ukv.value)] : ukv \in res}

\* the same list with the keys compared as they are written
UnfoundKeysCaseSensitive(req_key_list, res) ==
    SelectSeq(req_key_list,
              LAMBDA req_key : req_key \notin {found_ukv.key : found_ukv \in res})

\* Python: [k for k in req_key_list if k.lower() not in found keys lowered]
UnfoundKeys(req_key_list, res) ==
    SelectSeq(req_key_list,
              LAMBDA req_key : Lower(req_key) \notin {Lower(found_ukv.key) : found_ukv \in res})

\* find_named_key_values once the rows are fetched
find_named_key_values_result(rows, r) ==
    LET req_key_list == [i \in 1..Len(r.body.items) |-> r.body.items[i].s]
        res == SQL_SELECT_USERID_NAMED_KEY_VALUES(rows, GlobusId(r), req_key_list)
        unfound_key_list == UnfoundKeys(req_key_list, res)
    IN  IF Cardinality(res) # Len(req_key_list) /\ unfound_key_list # <<>>
        THEN [Raised("RequestedKeysNotFound", "unfound keys") EXCEPT
                  !.unfound = unfound_key_list, !.count = Len(unfound_key_list)]
        ELSE [Returned("list") EXCEPT !.entries = KeyValueList(res)]

\* get_all_key_values raising nothing when no row is fetched
get_all_key_values_result_no_raise(rows, r) ==
    LET res == SQL_SELECT_USERID_ALL(rows, GlobusId(r))
    IN  IF res = {} THEN Proceed
        ELSE [Returned("list") EXCEPT !.entries = KeyValueList(res)]

\* get_all_key_values once the rows are fetched
get_all_key_values_result(rows, r) ==
    LET res == SQL_SELECT_USERID_ALL(rows, GlobusId(r))
    IN  IF res = {} THEN Raised("KeyNotFound", "no rows")
        ELSE [Returned("list") EXCEPT !.entries = KeyValueList(res)]

ReadResults(rows, r) ==
    CASE r.op = "get" -> get_key_value_result(rows, r)
      [] r.op = "find" -> {find_named_key_values_result(rows, r)}
      [] r.op = "all" -> {get_all_key_values_result(rows, r)}

\* the statements after the with block of get, find-named and get-all,
\* reached when the block has neither returned nor raised
EndOfMethod(o) ==
    IF o.kind = "proceed" THEN Raised("Worker", "unexpected execution flow") ELSE o

\* what a write returns or raises after its commit
WriteResult(r, rows_deleted) ==
    CASE r.op = "upsert" -> Returned("stored")
      [] r.op = "upsert_many" -> [Returned("stored") EXCEPT !.count = Len(r.body.items)]
      [] r.op = "delete" ->
            IF rows_deleted = 1 THEN Returned("deleted")
            ELSE IF rows_deleted = 0 THEN Raised("KeyNotFound", "no row")
            ELSE Raised("DataStoreQuery", "deletions")

(***************************************************************************)
(* The steps of a request.  pc: "idle", "connect" (checks passed, about to *)
(* acquire the connection), "execute" (connection held), "commit"          *)
(* (statement executed, transaction open), "done" (the call returned or    *)
(* raised; connection released).                                           *)
(***************************************************************************)
\* the call ending with its connection left open
FinishHoldingConnection(p, o, c) ==
    /\ out' = [out EXCEPT ![p] = o]
    /\ conn' = [conn EXCEPT ![p] = c]
    /\ pc' = [pc EXCEPT ![p] = "done"]

\* the call returns or raises o; leaving the with block closes the connection
Finish(p, o, c) ==
    /\ out' = [out EXCEPT ![p] = o]
    /\ conn' = [conn EXCEPT ![p] = [c EXCEPT !.open = FALSE]]
    /\ pc' = [pc EXCEPT ![p] = "done"]

\* the threads in the middle of a call
InProgress == {p \in Procs : pc[p] \in {"connect", "execute", "commit"}}

\* the connections when thread p begins a call, which has connection c: the
\* calls in progress are calls during which p's call runs, and p's call is
\* no longer one during which an ended call ran
ConnectionsAtBegin(p, c) ==
    [x \in Procs |->
        IF x = p THEN [c EXCEPT !.during = InProgress \ {p}]
        ELSE [conn[x] EXCEPT !.during = IF x \in InProgress THEN @ \cup {p} ELSE @ \ {p}]]

\* the endpoint is called with request r: everything up to the connection
BeginConnectionFirst(p, r) ==
    /\ pc[p] = "idle"
    /\ req' = [req EXCEPT ![p] = r]
    /\ pre' = [pre EXCEPT ![p] = store]
    /\ LET o == ChecksBeforeStore(r)
           c == [NoConn EXCEPT !.acquired = 1, !.lookups = IdentityLookups(r)]
       IN  IF o.kind = "proceed"
           THEN /\ pc' = [pc EXCEPT ![p] = "connect"]
                /\ out' = [out EXCEPT ![p] = NoOut]
                /\ conn' = ConnectionsAtBegin(p, [NoConn EXCEPT !.lookups = IdentityLookups(r)])
           ELSE /\ pc' = [pc EXCEPT ![p] = "done"]
                /\ out' = [out EXCEPT ![p] = o]
                /\ conn' = ConnectionsAtBegin(p, c)
    /\ UNCHANGED <<store, clock, txn, kvIn, kvOut, helperInstances, ctor>>

Begin(p, r) ==
    /\ pc[p] = "idle"
    /\ req' = [req EXCEPT ![p] = r]
    /\ pre' = [pre EXCEPT ![p] = store]
    /\ LET o == ChecksBeforeStore(r)
           c == [NoConn EXCEPT !.lookups = IdentityLookups(r)]
       IN  /\ conn' = ConnectionsAtBegin(p, c)
           /\ IF o.kind = "proceed"
              THEN /\ pc' = [pc EXCEPT ![p] = "connect"]
                   /\ out' = [out EXCEPT ![p] = NoOut]
              ELSE /\ pc' = [pc EXCEPT ![p] = "done"]
                   /\ out' = [out EXCEPT ![p] = o]
    /\ UNCHANGED <<store, clock, txn, kvIn, kvOut, helperInstances, ctor>>

\* autocommit of the connection once the method has it: a write saves the
\* setting and turns it off
AutocommitKept(op, existing) == existing

AutocommitSet(op, existing) == IF op \in WriteOps THEN FALSE ELSE existing

\* with closing(self.dbUKV.getDBConnection()) as dbConn
Connect(p) ==
    /\ pc[p] = "connect"
    /\ \E existing_autocommit_setting \in BOOLEAN :
          conn' = [conn EXCEPT ![p] =
                      [open |-> TRUE,
                       autocommit |-> AutocommitSet(req[p].op, existing_autocommit_setting),
                       existing |-> existing_autocommit_setting,
                       acquired |-> conn[p].acquired + 1,
                       executed |-> 0, errors |-> 0, rollbacks |-> 0,
                       lookups |-> conn[p].lookups,
                       during |-> conn[p].during]]
    /\ pc' = [pc EXCEPT ![p] = "execute"]
    /\ UNCHANGED <<store, clock, req, out, txn, pre, kvIn, kvOut, helperInstances, ctor>>

\* getDBConnection raises
ConnectFails(p) ==
    /\ pc[p] = "connect"
    /\ Finish(p, Raised("MySQLError", "connect"), conn[p])
    /\ UNCHANGED <<store, clock, req, txn, pre, kvIn, kvOut, helperInstances, ctor>>

\* a read that removes the row it returns
ExecuteReadConsuming(p) ==
    /\ pc[p] = "execute"
    /\ req[p].op \in ReadOps
    /\ \E o \in ReadResults(store, req[p]) :
          Finish(p, EndOfMethod(o), [conn[p] EXCEPT !.executed = @ + 1])
    /\ store' = SQL_DELETE_USERID_KEY_VALUE(store, GlobusId(req[p]), req[p].key)
    /\ UNCHANGED <<clock, req, txn, pre, kvIn, kvOut, helperInstances, ctor>>

\* curs.execute and the fetch of a read, and what the method makes of the rows
ExecuteRead(p) ==
    /\ pc[p] = "execute"
    /\ req[p].op \in ReadOps
    /\ \E o \in ReadResults(store, req[p]) :
          Finish(p, EndOfMethod(o), [conn[p] EXCEPT !.executed = @ + 1])
    /\ UNCHANGED <<store, clock, req, txn, pre, kvIn, kvOut, helperInstances, ctor>>

\* the data store reports an error to a read: it is raised as it is
ReadFails(p) ==
    /\ pc[p] = "execute"
    /\ req[p].op \in ReadOps
    /\ Finish(p, Raised("MySQLError", "execute"),
              [conn[p] EXCEPT !.executed = @ + 1, !.errors = @ + 1])
    /\ UNCHANGED <<store, clock, req, txn, pre, kvIn, kvOut, helperInstances, ctor>>

\* curs.execute of a write.  With autocommit off the statement's effect
\* stays in the transaction; with autocommit on the data store commits it.
ExecuteWrite(p) ==
    /\ pc[p] = "execute"
    /\ req[p].op \in WriteOps
    /\ LocksFree(p)
    /\ LET now == clock
           rows_deleted ==
               Cardinality(SQL_SELECT_USERID_KEY_VALUE(store, GlobusId(req[p]), req[p].key))
       IN  /\ IF conn[p].autocommit
              THEN /\ store' = StatementEffect(store, req[p], now)
                   /\ txn' = [txn EXCEPT ![p] =
                                 [stmt |-> "committed", now |-> now, rowcount |-> rows_deleted,
                                  text |-> StatementText(req[p]),
                                  params |-> StatementParams(req[p])]]
              ELSE /\ store' = store
                   /\ txn' = [txn EXCEPT ![p] =
                                 [stmt |-> req[p].op, now |-> now, rowcount |-> rows_deleted,
                                  text |-> StatementText(req[p]),
                                  params |-> StatementParams(req[p])]]
    /\ conn' = [conn EXCEPT ![p].executed = @ + 1]
    /\ pc' = [pc EXCEPT ![p] = "commit"]
    /\ UNCHANGED <<clock, req, out, pre, kvIn, kvOut, helperInstances, ctor>>

\* the handler re-raising what the data store reported, with no rollback
RaiseAsItIs(p, c) ==
    /\ txn' = [txn EXCEPT ![p] = NoTxn]
    /\ Finish(p, Raised("MySQLError", "execute"), c)

\* except mysql.connector.errors.Error: rollback, then raise; the line that
\* restores autocommit is not reached.  c is the connection as the error
\* left it.
RaiseAfterRollback(p, c) ==
    /\ txn' = [txn EXCEPT ![p] = NoTxn]
    /\ Finish(p, Raised("DataStoreQuery", "rollback"), [c EXCEPT !.rollbacks = @ + 1])

\* the data store reports an error to curs.execute of a write
ExecuteFails(p) ==
    /\ pc[p] = "execute"
    /\ req[p].op \in WriteOps
    /\ RaiseAfterRollback(p, [conn[p] EXCEPT !.executed = @ + 1, !.errors = @ + 1])
    /\ UNCHANGED <<store, clock, req, pre, kvIn, kvOut, helperInstances, ctor>>

\* the rows after dbConn.commit()
Committed(rows, p) ==
    IF txn[p].stmt \in WriteOps THEN StatementEffect(rows, req[p], txn[p].now) ELSE rows

\* dbConn.commit(), the restore of autocommit, and the return or raise
Commit(p) ==
    /\ pc[p] = "commit"
    /\ store' = Committed(store, p)
    /\ txn' = [txn EXCEPT ![p] = NoTxn]
    /\ Finish(p, WriteResult(req[p], txn[p].rowcount),
              [conn[p] EXCEPT !.autocommit = conn[p].existing])
    /\ UNCHANGED <<clock, req, pre, kvIn, kvOut, helperInstances, ctor>>

\* the data store reports an error to dbConn.commit()
CommitFails(p) ==
    /\ pc[p] = "commit"
    /\ RaiseAfterRollback(p, [conn[p] EXCEPT !.errors = @ + 1])
    /\ UNCHANGED <<store, clock, req, pre, kvIn, kvOut, helperInstances, ctor>>

\* what can happen to the probe of test_connection: the step that raises, if
\* any (getDBConnection, cursor, execute, fetchone), and the row fetchone
\* gives
ProbeOutcomes ==
    {[raises |-> step, row |-> "None"] : step \in {"connect", "cursor", "execute", "fetch"}}
        \cup {[raises |-> "none", row |-> row] :
                 row \in {"None", "()", "('ANYTHING',)", "('OTHER',)"}}

\* test_connection with an except arm that raises what it caught
test_connection_result_raising(probe) ==
    [(IF probe.raises # "none" THEN Raised("MySQLError", probe.raises)
      ELSE IF probe.row \in {"None", "()"} THEN Returned("False")
      ELSE IF probe.row = "('ANYTHING',)" THEN Returned("True")
      ELSE Returned("False"))
     EXCEPT !.text = <<probe.raises, probe.row>>]

\* what test_connection returns; text keeps what happened to the probe
test_connection_result(probe) ==
    [(IF probe.raises # "none" THEN Returned("False")
      ELSE IF probe.row \in {"None", "()"} THEN Returned("False")
      ELSE IF probe.row = "('ANYTHING',)" THEN Returned("True")
      ELSE Returned("False"))
     EXCEPT !.text = <<probe.raises, probe.row>>]

\* the connection as test_connection leaves it
ProbeConnection(probe) ==
    [NoConn EXCEPT !.acquired = IF probe.raises = "connect" THEN 0 ELSE 1,
                   !.executed = IF probe.raises \in {"connect", "cursor"} THEN 0 ELSE 1,
                   !.errors = IF probe.raises # "none" THEN 1 ELSE 0]

TestConnectionOutcomes ==
    {<<test_connection_result(probe), ProbeConnection(probe)>> : probe \in ProbeOutcomes}

\* the status endpoint: test_connection from its call to its return
test_connection(p) ==
    /\ pc[p] = "idle"
    /\ req' = [req EXCEPT ![p] = [NoRequest EXCEPT !.op = "status"]]
    /\ pre' = [pre EXCEPT ![p] = store]
    /\ \E oc \in TestConnectionOutcomes : Finish(p, oc[1], oc[2])
    /\ UNCHANGED <<store, clock, txn, kvIn, kvOut, helperInstances, ctor>>

\* the HTTP status with which the find endpoint of app.py answers what the
\* worker returned or raised
find_named_key_values_status(o) ==
    CASE o.kind \in {"ok", "Response"} -> 200
      [] o.kind \in {"RequestFormat", "ValueFormat", "KeyFormat"} -> 400
      [] o.kind = "BadKeyList" -> 400
      [] o.kind = "KeyNotFound" -> 404
      [] o.kind = "RequestedKeysNotFound" -> 404
      [] OTHER -> 500

\* the endpoints of get and get-all: make_response(<what the worker
\* returned>, 200, ..) sets status 200 on a Response it is handed
get_key_value_status(o) ==
    CASE o.kind \in {"ok", "Response"} -> 200
      [] o.kind = "KeyFormat" -> 400
      [] o.kind = "KeyNotFound" -> 404
      [] OTHER -> 500

get_all_key_values_status(o) ==
    CASE o.kind \in {"ok", "Response"} -> 200
      [] o.kind = "KeyNotFound" -> 404
      [] OTHER -> 500

\* the endpoints of the writes: jsonify({'message': <what the worker
\* returned>}) raises TypeError on a Response, inside the try block whose
\* last arm catches Exception
upsert_key_value_status(o) ==
    CASE o.kind = "ok" -> 200
      [] o.kind \in {"KeyFormat", "ValueFormat", "RequestFormat"} -> 400
      [] OTHER -> 500

upsert_key_values_status(o) ==
    CASE o.kind = "ok" -> 200
      [] o.kind \in {"ValueFormat", "RequestFormat"} -> 400
      [] o.kind = "BadKeyList" -> 400
      [] OTHER -> 500

delete_key_value_status(o) ==
    CASE o.kind = "ok" -> 200
      [] o.kind \in {"KeyFormat", "ValueFormat", "RequestFormat"} -> 400
      [] o.kind = "KeyNotFound" -> 404
      [] OTHER -> 500

\* the HTTP status the endpoint of op answers with
EndpointStatus(op, o) ==
    CASE op = "get" -> get_key_value_status(o)
      [] op = "find" -> find_named_key_values_status(o)
      [] op = "all" -> get_all_key_values_status(o)
      [] op = "upsert" -> upsert_key_value_status(o)
      [] op = "upsert_many" -> upsert_key_values_status(o)
      [] op = "delete" -> delete_key_value_status(o)

\* the status code the identity service gave its failure Response
ResponseStatusCode(auth) == IF auth.sub = "other" THEN 403 ELSE 401

\* the endpoint has answered; the thread takes the next request
Return(p) ==
    /\ pc[p] = "done"
    /\ pc' = [pc EXCEPT ![p] = "idle"]
    /\ req' = [req EXCEPT ![p] = NoRequest]
    /\ out' = [out EXCEPT ![p] = NoOut]
    /\ conn' = [conn EXCEPT ![p] = NoConn]
    /\ pre' = [pre EXCEPT ![p] = {}]
    /\ UNCHANGED <<store, clock, txn, kvIn, kvOut, helperInstances, ctor>>

(***************************************************************************)
(* The requests of the model.                                              *)
(***************************************************************************)
Identities == {"U1", "U2"}

KeyA == <<"a">>
KeyFoo == <<"F", "o", "o">>
Keyfoo == <<"f", "o", "o">>
KeyWhitespace == <<"a", " ", "b">>

ValidKeys == {KeyA, KeyFoo, Keyfoo}
UrlKeys == ValidKeys \cup {KeyWhitespace}

\* identity resolution that fails: a failure response, a user_info without 'sub'
AuthFailures == {AuthResponse, UserInfoNoSub}

KeyValuePair(k, v) == JDict(<<"key", "value">>, <<JStr(k), v>>)

\* entries of the list a batch upsert is sent: pairs, a pair without
\* 'value', an entry that is no object
PairEntries ==
    {KeyValuePair(k, Arr1) : k \in {KeyA, KeyFoo, KeyWhitespace}}
        \cup {JDict(<<"key">>, <<JStr(KeyA)>>), JInt(1)}

\* entries of the list a batch find is sent
KeyEntries == {JStr(k) : k \in UrlKeys}

ListBodies(entries) == {JList(l) : l \in SeqsUpTo(entries, MaxListLen)}

\* bodies that are no list
NoListBodies == {Obj1, JNull, JBadRequest}

\* the requests of one user: every endpoint, well-formed and not
RequestsOf(a) ==
    {Request(op, a, k, FALSE, JNull) : op \in {"get", "delete"}, k \in UrlKeys}
        \cup {Request("upsert", a, k, TRUE, b) : k \in ValidKeys, b \in {Obj1, Arr1}}
        \cup {Request("upsert", a, KeyA, TRUE, b) :
                b \in {EmptyObj, EmptyArr, JNull, JInt(1), JBadRequest}}
        \cup {Request("upsert", a, KeyWhitespace, TRUE, Obj1),
              Request("upsert", a, KeyA, FALSE, Obj1)}
        \cup {Request("all", a, <<>>, FALSE, JNull)}
        \cup {Request("find", a, <<>>, TRUE, b) : b \in ListBodies(KeyEntries) \cup NoListBodies}
        \cup {Request("find", a, <<>>, FALSE, JList(<<JStr(KeyA)>>))}
        \cup {Request("upsert_many", a, <<>>, TRUE, b) :
                b \in ListBodies(PairEntries) \cup NoListBodies}
        \cup {Request("upsert_many", a, <<>>, FALSE, JList(<<KeyValuePair(KeyA, Arr1)>>))}

\* requests that declare no JSON content type, with bodies of every kind
RequestsNotJson(a) ==
    {Request("upsert", a, KeyA, FALSE, b) : b \in {JNull, JBadRequest, EmptyObj}}
        \cup {Request("find", a, <<>>, FALSE, JBadRequest),
              Request("upsert_many", a, <<>>, FALSE, JNull)}

\* find-named requests whose list has an entry that is no string
RequestsNoStringKey(a) ==
    {Request("find", a, <<>>, TRUE, JList(l)) :
        l \in {<<JInt(1)>>, <<JStr(KeyA), JNull>>, <<Obj1>>, <<Arr1, JStr(KeyA)>>}}

\* requests whose identity does not resolve and whose payload is bad as well
RequestsUnresolvedBadPayload ==
    {Request("upsert", AuthResponse, KeyA, FALSE, JBadRequest),
     Request("upsert", AuthResponseOther, KeyA, TRUE, EmptyObj),
     Request("upsert_many", AuthResponse, <<>>, TRUE, JNull),
     Request("find", AuthResponseOther, <<>>, TRUE, JList(<<JInt(1)>>)),
     Request("get", AuthResponseOther, KeyA, FALSE, JNull)}

\* the requests of a second user, who keeps one key
RequestsOfOther(a) ==
    {Request(op, a, KeyA, FALSE, JNull) : op \in {"get", "delete", "all"}}
        \cup {Request("upsert", a, KeyA, TRUE, Obj1),
              Request("find", a, <<>>, TRUE, JList(<<JStr(KeyA)>>))}

\* one request of every endpoint whose identity does not resolve
RequestsUnresolved ==
    {Request(op, a, KeyA, TRUE, Obj1) : op \in {"get", "delete", "upsert", "all"}, a \in AuthFailures}
        \cup {Request("find", a, <<>>, TRUE, JList(<<JStr(KeyA)>>)) : a \in AuthFailures}
        \cup {Request("upsert_many", a, <<>>, TRUE, JList(<<KeyValuePair(KeyA, Arr1)>>)) :
                a \in AuthFailures}

Requests ==
    RequestsOf(UserInfo("U1")) \cup RequestsOfOther(UserInfo("U2")) \cup RequestsUnresolved
        \cup RequestsNotJson(UserInfo("U1")) \cup RequestsNoStringKey(UserInfo("U1"))
        \cup RequestsUnresolvedBadPayload

(***************************************************************************)
(* Construction of the worker: UserKeyValueWorker.__init__ called by       *)
(* threads of one process.  AuthHelper keeps its instance process-wide.    *)
(***************************************************************************)
Constructors == {"t1", "t2", "t3"}

\* the instances AuthHelper.create can make in the model
MaxHelpers == 3

\* at: the statement the constructor has reached; initialized: what
\* AuthHelper.isInitialized() answered; authHelper: self.authHelper, the
\* number of the instance held (0: none); lock: self.lock exists; locked:
\* the thread holds a lock
NotConstructed ==
    [at |-> "new", initialized |-> FALSE, authHelper |-> 0, lock |-> FALSE, locked |-> FALSE]

\* app_config as the constructor may be handed it
AppConfigs == {"None", "no client id", "complete"}

\* __init__ up to the AuthHelper initialization: the configuration is read
ReadConfiguration(t, app_config) ==
    /\ ctor[t].at = "new"
    /\ ctor' = [ctor EXCEPT ![t].at =
                    IF app_config = "complete" THEN "configured" ELSE "UKVConfigurationException"]
    /\ UNCHANGED <<store, clock, pc, req, out, conn, txn, pre, kvIn, kvOut, helperInstances>>

\* if not AuthHelper.isInitialized(): no lock is held, self.lock does not
\* exist yet
IsInitialized(t) ==
    /\ ctor[t].at = "configured"
    /\ ctor' = [ctor EXCEPT ![t].at = "checked", ![t].initialized = helperInstances > 0]
    /\ UNCHANGED <<store, clock, pc, req, out, conn, txn, pre, kvIn, kvOut, helperInstances>>

\* self.authHelper = AuthHelper.create(clientId, clientSecret).  When an
\* instance exists by now, create either raises, which the constructor
\* turns into UKVConfigurationException, or makes another instance.
CreateHelper(t) ==
    /\ ctor[t].at = "checked"
    /\ ~ctor[t].initialized
    /\ helperInstances < MaxHelpers
    /\ \/ /\ helperInstances' = helperInstances + 1
          /\ ctor' = [ctor EXCEPT ![t].at = "helper", ![t].authHelper = helperInstances + 1]
       \/ /\ helperInstances > 0
          /\ helperInstances' = helperInstances
          /\ ctor' = [ctor EXCEPT ![t].at = "UKVConfigurationException"]
    /\ UNCHANGED <<store, clock, pc, req, out, conn, txn, pre, kvIn, kvOut>>

\* self.authHelper = AuthHelper.instance(): the instance the class keeps
UseInstance(t) ==
    /\ ctor[t].at = "checked"
    /\ ctor[t].initialized
    /\ ctor' = [ctor EXCEPT ![t].at = "helper", ![t].authHelper = helperInstances]
    /\ UNCHANGED <<store, clock, pc, req, out, conn, txn, pre, kvIn, kvOut, helperInstances>>

\* the rest of __init__: self.lock = threading.RLock(), self.dbUKV
FinishConstruction(t) ==
    /\ ctor[t].at = "helper"
    /\ ctor' = [ctor EXCEPT ![t].at = "constructed", ![t].lock = TRUE]
    /\ UNCHANGED <<store, clock, pc, req, out, conn, txn, pre, kvIn, kvOut, helperInstances>>

NextConstruction ==
    \E t \in Constructors :
        \/ \E app_config \in AppConfigs : ReadConfiguration(t, app_config)
        \/ IsInitialized(t)
        \/ CreateHelper(t)
        \/ UseInstance(t)
        \/ FinishConstruction(t)

(***************************************************************************)
(* The service: requests served one at a time by one worker thread.        *)
(***************************************************************************)
Init ==
    /\ store = {}
    /\ clock = 0
    /\ pc = [p \in Procs |-> "idle"]
    /\ req = [p \in Procs |-> NoRequest]
    /\ out = [p \in Procs |-> NoOut]
    /\ conn = [p \in Procs |-> NoConn]
    /\ txn = [p \in Procs |-> NoTxn]
    /\ pre = [p \in Procs |-> {}]
    /\ kvIn = <<>>
    /\ kvOut = NoValidation
    /\ helperInstances = 0
    /\ ctor = [t \in Constructors |-> NotConstructed]

\* time passes at the data store
Tick ==
    /\ clock < MaxClock
    /\ clock' = clock + 1
    /\ UNCHANGED <<store, pc, req, out, conn, txn, pre, kvIn, kvOut, helperInstances, ctor>>

Step(p) ==
    \/ \E r \in Requests : Begin(p, r)
    \/ Connect(p)
    \/ ConnectFails(p)
    \/ ExecuteRead(p)
    \/ ReadFails(p)
    \/ ExecuteWrite(p)
    \/ ExecuteFails(p)
    \/ Commit(p)
    \/ CommitFails(p)
    \/ test_connection(p)
    \/ Return(p)

Next == Step("w1") \/ Tick

Spec == Init /\ [][Next]_vars

\* the constructions of workers alone
SpecConstruction == Init /\ [][NextConstruction]_vars

(***************************************************************************)
(* The service with two worker threads serving requests at the same time.  *)
(* A write holds the locks of its rows from its statement to its commit or *)
(* rollback; a read is one statement and sees the committed rows.          *)
(***************************************************************************)
\* the requests the first thread serves: writes of one identity
WriterRequests ==
    {Request("upsert", UserInfo("U1"), KeyA, TRUE, Obj1),
     Request("upsert_many", UserInfo("U1"), <<>>, TRUE,
             JList(<<KeyValuePair(KeyA, Arr1), KeyValuePair(KeyFoo, Arr1)>>)),
     Request("delete", UserInfo("U1"), KeyA, FALSE, JNull)}

\* the requests the second thread serves meanwhile: writes of the same keys
\* and of another identity, and the three reads
ConcurrentRequests ==
    {Request("upsert", UserInfo("U1"), KeyA, TRUE, Arr1),
     Request("upsert", UserInfo("U1"), Keyfoo, TRUE, Obj1),
     Request("upsert", UserInfo("U2"), KeyA, TRUE, Arr1),
     Request("delete", UserInfo("U1"), KeyA, FALSE, JNull),
     Request("get", UserInfo("U1"), KeyA, FALSE, JNull),
     Request("all", UserInfo("U1"), <<>>, FALSE, JNull),
     Request("find", UserInfo("U1"), <<>>, TRUE, JList(<<JStr(KeyA), JStr(Keyfoo)>>))}

RequestsOfThread(p) == IF p = "w1" THEN WriterRequests ELSE ConcurrentRequests

StepConcurrent(p) ==
    \/ \E r \in RequestsOfThread(p) : Begin(p, r)
    \/ Connect(p)
    \/ ConnectFails(p)
    \/ ExecuteRead(p)
    \/ ReadFails(p)
    \/ ExecuteWrite(p)
    \/ ExecuteFails(p)
    \/ Commit(p)
    \/ CommitFails(p)
    \/ Return(p)

NextConcurrent == \E p \in Procs : StepConcurrent(p)

SpecConcurrent == Init /\ [][NextConcurrent]_vars

(***************************************************************************)
(* The service sent batch upserts whose values are empty documents.        *)
(***************************************************************************)
\* pairs with a value that is a document, an empty object, an empty array, null
ValuePairEntries ==
    {KeyValuePair(KeyA, Arr1), KeyValuePair(KeyFoo, EmptyObj),
     KeyValuePair(KeyA, EmptyArr), KeyValuePair(KeyFoo, JNull)}

ValueRequests ==
    {Request("upsert_many", UserInfo("U1"), <<>>, TRUE, b) : b \in ListBodies(ValuePairEntries)}
        \cup {Request("get", UserInfo("U1"), k, FALSE, JNull) : k \in {KeyA, KeyFoo}}

StepValues(p) ==
    \/ \E r \in ValueRequests : Begin(p, r)
    \/ Connect(p)
    \/ ConnectFails(p)
    \/ ExecuteRead(p)
    \/ ReadFails(p)
    \/ ExecuteWrite(p)
    \/ ExecuteFails(p)
    \/ Commit(p)
    \/ CommitFails(p)
    \/ Return(p)

NextValues == StepValues("w1")

SpecValues == Init /\ [][NextValues]_vars

(***************************************************************************)
(* Key validation alone: the validator called with keys and key lists.     *)
(***************************************************************************)
KeyAlphabet == {"a", "F", " ", "\n", "_", "*", "-", "/"}

\* a key of n characters
LongKey(n, c) == [i \in 1..n |-> c]

\* keys of up to MaxKeyChars characters, and keys at the length limit
ModelKeys ==
    SeqsUpTo(KeyAlphabet, MaxKeyChars)
        \cup {LongKey(MaxKeyLen, "a"), LongKey(MaxKeyLen + 1, "a"),
              LongKey(MaxKeyLen + 1, " "), LongKey(MaxKeyLen + 1, "_")}

ListKeys ==
    {KeyA, KeyFoo, KeyWhitespace, <<"a", "_">>, <<"-", "-">>, LongKey(MaxKeyLen + 1, "a")}

CallValidateKey(k) ==
    /\ kvOut.call = "none"
    /\ kvIn' = <<k>>
    /\ kvOut' = [NoValidation EXCEPT !.call = "validate_key", !.one = validate_key(k)]
    /\ UNCHANGED <<store, clock, pc, req, out, conn, txn, pre, helperInstances, ctor>>

CallValidateKeyList(key_list) ==
    /\ kvOut.call = "none"
    /\ kvIn' = key_list
    /\ kvOut' = [NoValidation EXCEPT !.call = "validate_key_list",
                                     !.list = validate_key_list(key_list)]
    /\ UNCHANGED <<store, clock, pc, req, out, conn, txn, pre, helperInstances, ctor>>

\* the validator has answered; the next call
ValidatorReturns ==
    /\ kvOut.call # "none"
    /\ kvIn' = <<>>
    /\ kvOut' = NoValidation
    /\ UNCHANGED <<store, clock, pc, req, out, conn, txn, pre, helperInstances, ctor>>

NextKeys ==
    \/ \E k \in ModelKeys : CallValidateKey(k)
    \/ \E key_list \in SeqsUpTo(ListKeys, MaxListLen) : CallValidateKeyList(key_list)
    \/ ValidatorReturns

SpecKeys == Init /\ [][NextKeys]_vars

(***************************************************************************)
(* Claims about key validation (specification SpecKeys).                   *)
(***************************************************************************)
\* the characters the documentation of the endpoints says a key cannot hold
DocumentedDisallowedChars == {"%", "_", "*", "#", "'", "\"", "GRAVE"}

\* the first key format rule a key violates, in the order length,
\* whitespace, disallowed character, disallowed substring
FirstRuleViolated(key) ==
    IF Len(key) > MaxKeyLen THEN "length"
    ELSE IF \E i \in 1..Len(key) : key[i] \in WhitespaceChars THEN "whitespace"
    ELSE IF \E i \in 1..Len(key) : key[i] \in DocumentedDisallowedChars THEN "character"
    ELSE IF \E i \in 1..(Len(key) - 1) : <<key[i], key[i + 1]>> \in DisallowedSeqs
         THEN "sequence"
    ELSE "ok"

\* C7: validate_key returns success exactly for the keys that violate no key
\* format rule (at most 50 characters, no whitespace, none of % _ * # ' " `,
\* none of -- */ /*), and otherwise raises KeyFormatError for the first rule
\* violated, in the order length, whitespace, character, substring.
C7_ValidateKeyAgreesWithRules ==
    kvOut.call = "validate_key" =>
        LET rule == FirstRuleViolated(kvIn[1])
        IN  kvOut.one = IF rule = "ok" THEN KeyOk ELSE KeyFormatError(rule, kvIn[1])

\* the keys of a list that validate_key rejects
InvalidKeys(key_list) == {k \in Range(key_list) : validate_key(k) # KeyOk}

\* C8: _validate_key_list raises BadKeyListError if and only if some key of
\* the list is invalid; the error maps exactly the invalid keys of the list,
\* each to the message validate_key gives for it, and counts them.
C8_KeyListReportsEveryInvalidKey ==
    kvOut.call = "validate_key_list" =>
        LET invalid == InvalidKeys(kvIn)
        IN  /\ (kvOut.list.kind = "BadKeyList") <=> (invalid # {})
            /\ DOMAIN kvOut.list.error_by_key = invalid
            /\ \A k \in invalid : kvOut.list.error_by_key[k] = validate_key(k)
            /\ kvOut.list.count = Cardinality(invalid)

\* a list whose first key is invalid and whose second key is invalid for
\* another rule: both are reported
C8_Witness ==
    /\ kvOut.call = "validate_key_list"
    /\ Len(kvIn) = 2
    /\ kvOut.list.kind = "BadKeyList"
    /\ kvOut.list.count = 2
    /\ kvOut.list.error_by_key[kvIn[1]].rule # kvOut.list.error_by_key[kvIn[2]].rule

(***************************************************************************)
(* Claims about the service (specification Spec).                          *)
(***************************************************************************)
\* thread p has answered a request of endpoint op
Done(p, op) == pc[p] = "done" /\ req[p].op = op

\* the identity of the request resolved to a user
Resolved(r) == r.auth.t = "dict" /\ r.auth.sub # "absent"

\* the rows of identity id under key k, keys compared without case
RowsOf(rows, id, k) == {row \in rows : row.id = id /\ Lower(row.key) = Lower(k)}

\* an entry of a batch upsert that is no object or lacks 'key' or 'value'
MalformedEntry(e) == e.t # "dict" \/ ~HasMember(e, "key") \/ ~HasMember(e, "value")

\* an entry of a batch upsert whose key fails key validation
InvalidKeyEntry(e) ==
    /\ ~MalformedEntry(e)
    /\ Member(e, "key").t = "str"
    /\ validate_key(Member(e, "key").s) # KeyOk

\* C1: when an entry of the list of upsert-many is malformed, or a key of it
\* fails key validation, or the data store reports an error to the write,
\* the table holds after the call exactly the rows it held before it.
C1_BatchAtomicity ==
    \A p \in Procs :
        /\ Done(p, "upsert_many")
        /\ \/ /\ req[p].body.t = "list"
              /\ \E i \in 1..Len(req[p].body.items) :
                    MalformedEntry(req[p].body.items[i]) \/ InvalidKeyEntry(req[p].body.items[i])
           \/ conn[p].errors > 0
           \/ out[p].kind \in {"DataStoreQuery", "MySQLError"}
        => store = pre[p]

\* the pairs [a, 'a b'] sent to a table that holds rows: the call has raised
\* BadKeyListError and key a has no row
C1_Witness ==
    /\ Done("w1", "upsert_many")
    /\ req["w1"].body = JList(<<KeyValuePair(KeyA, Arr1), KeyValuePair(KeyWhitespace, Arr1)>>)
    /\ out["w1"].kind = "BadKeyList"
    /\ pre["w1"] # {}
    /\ RowsOf(store, GlobusId(req["w1"]), KeyA) = {}

\* what get answers for key k of identity id on the rows
GetOutcomes(rows, id, k) ==
    get_key_value_result(rows, Request("get", UserInfo(id), k, FALSE, JNull))

\* a step in which the write of thread p commits and its call returns success
WriteSucceeds(p) ==
    /\ pc[p] = "commit"
    /\ pc'[p] = "done"
    /\ out'[p].kind = "ok"

\* C2: after a successful upsert-one(U, k, v), whatever the table held, get(U, k)
\* returns exactly v; an upsert of the value already stored leaves the answer
\* of get as it was; and the answer of get(U, k) changes only in a step that
\* commits a successful upsert or delete of (U, k).
C2_RoundTripAndReplace ==
    [][/\ \A p \in Procs :
             WriteSucceeds(p) /\ req[p].op = "upsert" =>
                 LET before == GetOutcomes(store, GlobusId(req[p]), req[p].key)
                     after == GetOutcomes(store', GlobusId(req[p]), req[p].key)
                 IN  /\ \A o \in after : o.kind = "ok" /\ Loads(o.text) = req[p].body
                     /\ (\E o \in before : o.kind = "ok" /\ Loads(o.text) = req[p].body)
                            => after = before
       /\ \A id \in Identities, k \in ValidKeys :
             GetOutcomes(store', id, k) # GetOutcomes(store, id, k) =>
                 \E p \in Procs :
                     /\ WriteSucceeds(p)
                     /\ <<id, Lower(k)>> \in WriteKeys(req[p])
      ]_vars

\* an upsert-one has returned success for a key that held another value,
\* stored under another casing of the key: get answers the new value
C2_Witness ==
    /\ Done("w1", "upsert")
    /\ out["w1"].kind = "ok"
    /\ \E row \in RowsOf(pre["w1"], GlobusId(req["w1"]), req["w1"].key) :
          row.value # Dumps(req["w1"].body) /\ row.key # req["w1"].key
    /\ GetOutcomes(store, GlobusId(req["w1"]), req["w1"].key)
          = {[Returned("value") EXCEPT !.text = Dumps(req["w1"].body)]}

\* the keys a find-named request names
RequestedKeys(r) == [i \in 1..Len(r.body.items) |-> r.body.items[i].s]

\* thread p has answered a find-named whose statement the data store ran
FindAnswered(p) == Done(p, "find") /\ conn[p].executed = 1 /\ conn[p].errors = 0

\* requested key k has no row for the identity of request r
Absent(rows, r, k) == RowsOf(rows, GlobusId(r), k) = {}

\* C3: find-named fails with the requested-keys-not-found error if and only if
\* a requested key has no row for the identity, keys compared without case;
\* the error lists exactly the requested keys that have none, and no
\* {key, value} entry is returned, whatever keys matched.
C3_FindNamedAllOrNothing ==
    \A p \in Procs :
        FindAnswered(p) =>
            LET keys == RequestedKeys(req[p])
                missing == SelectSeq(keys, LAMBDA k : Absent(store, req[p], k))
            IN  /\ (out[p].kind = "RequestedKeysNotFound") <=> (missing # <<>>)
                /\ out[p].kind = "RequestedKeysNotFound" =>
                       /\ out[p].unfound = missing
                       /\ out[p].entries = {}

\* a find-named for two keys of which one has a row, stored under another
\* casing: the call has failed, naming the other key alone
C3_Witness ==
    /\ FindAnswered("w1")
    /\ out["w1"].kind = "RequestedKeysNotFound"
    /\ Len(out["w1"].unfound) = 1
    /\ Len(RequestedKeys(req["w1"])) = 2
    /\ \E k \in Range(RequestedKeys(req["w1"])), row \in store :
          /\ row \in RowsOf(store, GlobusId(req["w1"]), k)
          /\ row.key # k

\* C4: when every requested key has a row for the identity, find-named returns
\* a list with an entry for every requested key, each entry holding the value
\* stored for that identity, and with no entry for a key that was not
\* requested or for a row of another identity; also when a key is named twice.
C4_FindNamedSuccessResult ==
    \A p \in Procs :
        FindAnswered(p) =>
            LET keys == RequestedKeys(req[p])
                id == GlobusId(req[p])
            IN  /\ (\A i \in 1..Len(keys) : ~Absent(store, req[p], keys[i]))
                       => out[p].kind = "ok"
                /\ out[p].kind = "ok" =>
                       /\ \A i \in 1..Len(keys) :
                             \E e \in out[p].entries, row \in RowsOf(store, id, keys[i]) :
                                 e.key = row.key /\ e.value = Loads(row.value)
                       /\ \A e \in out[p].entries :
                             /\ \E i \in 1..Len(keys) : Lower(e.key) = Lower(keys[i])
                             /\ \E row \in store :
                                   row.id = id /\ row.key = e.key /\ Loads(row.value) = e.value

\* a find-named that names one key twice while another identity holds the
\* same key with another value: one entry is returned
C4_Witness ==
    /\ FindAnswered("w1")
    /\ out["w1"].kind = "ok"
    /\ Len(RequestedKeys(req["w1"])) = 2
    /\ Cardinality(out["w1"].entries) = 1
    /\ \E row \in store, e \in out["w1"].entries :
          row.id # GlobusId(req["w1"]) /\ row.key = e.key /\ Loads(row.value) # e.value

\* thread p has answered a delete whose statement and commit the data store ran
DeleteAnswered(p) == Done(p, "delete") /\ conn[p].executed = 1 /\ conn[p].errors = 0

\* C5: a delete of a key that has a row for the identity returns its
\* confirmation and removes that row and no other, after which get is
\* not-found; a delete of a key that has no row for the identity (as after a
\* delete with no upsert since) fails with KeyNotFoundError and leaves the
\* table as it was.
C5_DeleteSemantics ==
    \A p \in Procs :
        DeleteAnswered(p) =>
            LET id == GlobusId(req[p])
                rows == RowsOf(pre[p], id, req[p].key)
            IN  /\ rows # {} =>
                       /\ out[p].kind = "ok"
                       /\ store = pre[p] \ rows
                       /\ GetOutcomes(store, id, req[p].key) = {Raised("KeyNotFound", "no row")}
                /\ rows = {} =>
                       /\ out[p].kind = "KeyNotFound"
                       /\ store = pre[p]

\* a delete has returned its confirmation; the identity keeps another row
C5_Witness ==
    /\ DeleteAnswered("w1")
    /\ out["w1"].kind = "ok"
    /\ \E row \in store : row.id = GlobusId(req["w1"])
    /\ Cardinality(pre["w1"]) = Cardinality(store) + 1

\* C6: a key is matched without regard to case and reported as it was stored:
\* a successful upsert-one leaves a row under the key as the request wrote
\* it; a find-named whose keys all have a row under some casing succeeds and
\* reports each with the casing of its row; get-all reports the keys of the
\* identity's rows as they are stored.
C6_CaseInsensitiveMatchCasePreserved ==
    \A p \in Procs :
        LET id == GlobusId(req[p])
        IN  /\ Done(p, "upsert") /\ out[p].kind = "ok" =>
                   \E row \in store : row.id = id /\ row.key = req[p].key
            /\ FindAnswered(p) =>
                   LET keys == RequestedKeys(req[p])
                   IN  (\A i \in 1..Len(keys) : \E row \in store :
                            row.id = id /\ Lower(row.key) = Lower(keys[i]))
                       => /\ out[p].kind = "ok"
                          /\ \A i \in 1..Len(keys) :
                                \E e \in out[p].entries, row \in store :
                                    /\ row.id = id
                                    /\ Lower(row.key) = Lower(keys[i])
                                    /\ e.key = row.key
            /\ Done(p, "all") /\ out[p].kind = "ok" =>
                   {e.key : e \in out[p].entries}
                       = {row.key : row \in {r \in store : r.id = id}}

\* key 'Foo' is stored and find-named was sent ['foo']: the call has returned
\* the entry of key 'Foo'
C6_Witness ==
    /\ FindAnswered("w1")
    /\ RequestedKeys(req["w1"]) = <<Keyfoo>>
    /\ out["w1"].kind = "ok"
    /\ {e.key : e \in out["w1"].entries} = {KeyFoo}

FormatErrors == {"KeyFormat", "BadKeyList", "ValueFormat", "RequestFormat"}

\* C9: a get, find-named, upsert-one, upsert-many or delete that ends in a
\* key-format, bad-key-list, value-format or request-format error has acquired
\* no database connection and executed no statement.
C9_ValidateBeforeStore ==
    \A p \in Procs :
        /\ pc[p] = "done"
        /\ req[p].op \in {"get", "find", "upsert", "upsert_many", "delete"}
        /\ out[p].kind \in FormatErrors
        => conn[p].acquired = 0 /\ conn[p].executed = 0

\* an upsert-many whose second pair has an invalid key has raised
\* BadKeyListError, the table holding rows
C9_Witness ==
    /\ Done("w1", "upsert_many")
    /\ Len(req["w1"].body.items) = 2
    /\ out["w1"].kind = "BadKeyList"
    /\ store # {}
    /\ conn["w1"].acquired = 0

OpOfStep(p) == IF pc[p] = "idle" THEN req'[p].op ELSE req[p].op

\* C12: no step of get, find-named, get-all or the connection test changes a
\* row of the table (identity, key, value, time of upsert), whether the call
\* succeeds or fails.
C12_ReadsNeverMutate ==
    [][\A p \in Procs :
           pc'[p] # pc[p] /\ OpOfStep(p) \in ReadOps \cup {"status"} => store' = store
      ]_vars

\* a get has failed with not-found on a table that holds rows, and the rows
\* are those the table held when the call began
C12_Witness ==
    /\ Done("w1", "get")
    /\ conn["w1"].executed = 1
    /\ out["w1"].kind = "KeyNotFound"
    /\ store # {}
    /\ store = pre["w1"]

\* thread p has answered a get-all whose statement the data store ran
AllAnswered(p) == Done(p, "all") /\ conn[p].executed = 1 /\ conn[p].errors = 0

\* C15: get-all of identity U fails with not-found if and only if U owns no
\* row, and otherwise returns exactly one {key, value} entry per row U owns,
\* with the key and the value of that row, and no entry of another identity.
C15_GetAllReturnsOwnedRecords ==
    \A p \in Procs :
        AllAnswered(p) =>
            LET owned == {row \in store : row.id = GlobusId(req[p])}
            IN  /\ (out[p].kind = "KeyNotFound") <=> (owned = {})
                /\ owned # {} =>
                       /\ out[p].kind = "ok"
                       /\ out[p].entries
                              = {[key |-> row.key, value |-> Loads(row.value)] : row \in owned}
                       /\ Cardinality(out[p].entries) = Cardinality(owned)

\* get-all has returned two entries while another identity owns a row
C15_Witness ==
    /\ AllAnswered("w1")
    /\ out["w1"].kind = "ok"
    /\ Cardinality(out["w1"].entries) = 2
    /\ \E row \in store : row.id # GlobusId(req["w1"])

\* the rows of the table that a batch upsert of request r wrote
RowsWritten(rows, r) ==
    {row \in rows : <<row.id, Lower(row.key)>> \in WriteKeys(r)}

\* C17: the count a successful upsert-many reports equals the number of rows
\* the call created or replaced, also when a key appears in more than one
\* pair of the list.
C17_BatchCountIsRecordsWritten ==
    \A p \in Procs :
        Done(p, "upsert_many") /\ out[p].kind = "ok" =>
            out[p].count = Cardinality(RowsWritten(store, req[p]))

\* the request of thread p gets as far as _load_endpoint_json
ReachesPayload(p) ==
    /\ pc[p] # "idle"
    /\ req[p].op \in {"upsert", "upsert_many", "find"}
    /\ Resolved(req[p])
    /\ req[p].op = "upsert" => validate_key(req[p].key) = KeyOk

\* the shapes an endpoint accepts for its payload
ExpectedShapes(op) == IF op = "upsert" THEN {"list", "dict"} ELSE {"list"}

\* a body that does not parse, is null, has no expected shape, or is empty
PayloadRejected(r) ==
    \/ r.body.t = "BadRequest"
    \/ r.body = JNull
    \/ r.body.t \notin ExpectedShapes(r.op)
    \/ r.body \in {EmptyObj, EmptyArr}

\* the ValueFormatError raised is one of those of _load_endpoint_json
PayloadError(o) == o.kind = "ValueFormat" /\ o.why \in {"not JSON", "empty", "type"}

\* C18: a request without a JSON content type gets RequestFormatError,
\* whatever its body; otherwise a body that does not parse, is null, has no
\* expected shape or is an empty object or array gets ValueFormatError; and
\* the payload is returned (neither error raised) only if it is non-null,
\* non-empty and of an expected shape.
C18_PayloadOutcomeAndPrecedence ==
    \A p \in Procs :
        ReachesPayload(p) =>
            /\ ~req[p].is_json => pc[p] = "done" /\ out[p].kind = "RequestFormat"
            /\ req[p].is_json /\ PayloadRejected(req[p]) =>
                   pc[p] = "done" /\ PayloadError(out[p])
            /\ req[p].is_json /\ ~PayloadRejected(req[p]) =>
                   out[p].kind # "RequestFormat" /\ ~PayloadError(out[p])

\* an upsert-one without the JSON content type whose body does not parse has
\* been answered with RequestFormatError
C18_Witness ==
    /\ Done("w1", "upsert")
    /\ ~req["w1"].is_json
    /\ req["w1"].body = JBadRequest
    /\ out["w1"].kind = "RequestFormat"

\* C19: a find-named whose JSON array has an element that is no string (a
\* number, null, an object, an array) is rejected with ValueFormatError and
\* HTTP status 400, not with an internal error and status 500, and no
\* connection to the data store is acquired.
C19_KeyListShapeChecked ==
    \A p \in Procs :
        /\ Done(p, "find")
        /\ Resolved(req[p]) /\ req[p].is_json
        /\ req[p].body.t = "list"
        /\ \E i \in 1..Len(req[p].body.items) : req[p].body.items[i].t # "str"
        => /\ out[p].kind = "ValueFormat"
           /\ find_named_key_values_status(out[p]) = 400
           /\ conn[p].acquired = 0

\* the worker method of request r is called: the endpoints of get, upsert-one
\* and delete call it only with a key that passed validate_key
WorkerCalled(r) == r.op \in {"get", "delete", "upsert"} => validate_key(r.key) = KeyOk

\* C20: when the identity service answers with a failure Response, each of
\* get, find-named, get-all, upsert-one, upsert-many and delete returns that
\* same Response to its caller, having asked the identity service once, not
\* examined the payload, acquired no connection and left the table as it was.
C20_IdentityFailurePropagated ==
    \A p \in Procs :
        /\ pc[p] = "done"
        /\ req[p].op \in ReadOps \cup WriteOps
        /\ req[p].auth.t = "Response"
        /\ WorkerCalled(req[p])
        => /\ out[p] = ResponseOf(req[p].auth)
           /\ conn[p].lookups = 1
           /\ conn[p].acquired = 0 /\ conn[p].executed = 0
           /\ store = pre[p]

\* an upsert-one whose identity did not resolve and whose body does not
\* parse has returned the Response, the table holding rows
C20_Witness ==
    /\ Done("w1", "upsert")
    /\ req["w1"].auth = AuthResponse
    /\ req["w1"].body = JBadRequest
    /\ out["w1"].kind = "Response"
    /\ store # {}

\* C21: when identity resolution fails with a failure Response, the HTTP
\* response of every endpoint (get, find-named, get-all, upsert-one,
\* upsert-many, delete) has the status code of that Response; it is neither
\* 200 nor 500.
C21_IdentityFailureStatusKept ==
    \A p \in Procs :
        /\ pc[p] = "done"
        /\ req[p].op \in ReadOps \cup WriteOps
        /\ req[p].auth.t = "Response"
        /\ WorkerCalled(req[p])
        => /\ EndpointStatus(req[p].op, out[p]) = ResponseStatusCode(req[p].auth)
           /\ EndpointStatus(req[p].op, out[p]) \notin {200, 500}

\* C22: test_connection raises nothing: whether getDBConnection, cursor(),
\* execute() or fetchone() raises or the probe comes back, the call returns a
\* boolean, which is true only when the row fetched holds the expected
\* content and false after any failure.
C22_ConnectionTestNeverRaises ==
    \A p \in Procs :
        Done(p, "status") =>
            /\ out[p].kind = "ok"
            /\ out[p].why \in {"True", "False"}
            /\ out[p].why = "True" <=> out[p].text = <<"none", "('ANYTHING',)">>
            /\ out[p].text[1] # "none" => out[p].why = "False"

\* fetchone() has raised, after the statement ran: the call has returned False
C22_Witness ==
    /\ Done("w1", "status")
    /\ out["w1"].text[1] = "fetch"
    /\ conn["w1"].executed = 1
    /\ out["w1"] = [Returned("False") EXCEPT !.text = out["w1"].text]

\* C23: when upsert-one, upsert-many or delete releases its connection, the
\* connection's autocommit setting is the one it had when it was acquired,
\* after a commit and after a rollback alike.
C23_AutocommitRestoredOnRelease ==
    \A p \in Procs :
        /\ pc[p] = "done"
        /\ req[p].op \in WriteOps
        /\ conn[p].acquired = 1
        => conn[p].autocommit = conn[p].existing

\* C25: upsert-many validates all keys of the request before it checks the
\* pairs one by one: a request with an invalid key and with an entry that is
\* malformed or lacks 'value' fails with BadKeyListError naming every invalid
\* key, not with ValueFormatError.
C25_BatchKeysCheckedBeforePairs ==
    \A p \in Procs :
        /\ Done(p, "upsert_many")
        /\ Resolved(req[p]) /\ req[p].is_json
        /\ req[p].body.t = "list"
        /\ \E i \in 1..Len(req[p].body.items) : InvalidKeyEntry(req[p].body.items[i])
        /\ \E i \in 1..Len(req[p].body.items) : MalformedEntry(req[p].body.items[i])
        => /\ out[p].kind = "BadKeyList"
           /\ DOMAIN out[p].errors
                  = {Member(e, "key").s :
                        e \in {x \in Range(req[p].body.items) : InvalidKeyEntry(x)}}

\* the placeholders of a statement text
PlaceholderCount(text) == Len(SelectSeq(text, LAMBDA token : token = "%s"))

\* C26: the statement upsert-many executes for a list of M >= 1 pairs has M
\* value tuples of 3 placeholders each (identity, key, value): 3*M
\* placeholders, as many as parameters are bound, and the identity is a bound
\* parameter and no part of the statement text.
C26_BatchStatementShape ==
    \A p \in Procs :
        pc[p] = "commit" /\ req[p].op = "upsert_many" =>
            LET M == Len(req[p].body.items)
            IN  /\ Len(SelectSeq(txn[p].text, LAMBDA token : token = "(")) = M
                /\ PlaceholderCount(txn[p].text) = 3 * M
                /\ PlaceholderCount(txn[p].text) = Len(txn[p].params)
                /\ GlobusId(req[p]) \notin Range(txn[p].text)
                /\ \E i \in 1..Len(txn[p].params) : txn[p].params[i] = <<GlobusId(req[p])>>

\* C28: get, find-named and get-all return or raise from inside the scope of
\* their connection, whatever rows the data store gives and when it fails:
\* none of them ends with WorkerError.
C28_WorkerErrorUnreachable ==
    \A p \in Procs :
        pc[p] = "done" /\ req[p].op \in ReadOps =>
            /\ out[p].kind # "Worker"
            /\ conn[p].executed = 1 =>
                   out[p].kind \in {"ok", "KeyNotFound", "RequestedKeysNotFound", "MySQLError"}

\* a get-all for an identity that owns no row, on a table that holds rows,
\* has raised KeyNotFoundError from inside the scope
C28_Witness ==
    /\ Done("w1", "all")
    /\ conn["w1"].executed = 1 /\ conn["w1"].errors = 0
    /\ store # {}
    /\ SQL_SELECT_USERID_ALL(store, GlobusId(req["w1"])) = {}
    /\ out["w1"].kind = "KeyNotFound"

\* the rows outside the frame of write request r: those of another identity
\* and those of its identity under a key the request does not name
OutsideFrame(rows, r) == {row \in rows : <<row.id, Lower(row.key)>> \notin WriteKeys(r)}

\* C29: the step that commits a successful upsert-one, upsert-many or delete
\* changes rows of the request's identity under the keys the request names
\* and no other: every row of another identity, and every row of the
\* identity under another key, keeps its key, value and time of upsert, and
\* no such row appears.
C29_WriteFrame ==
    [][\A p \in Procs :
           WriteSucceeds(p) => OutsideFrame(store', req[p]) = OutsideFrame(store, req[p])
      ]_vars

\* an upsert-one has succeeded at a later time than the upsert of another
\* key of its identity, while another identity owns a row: both rows are as
\* they were when the call began
C29_Witness ==
    /\ Done("w1", "upsert") /\ out["w1"].kind = "ok"
    /\ store # pre["w1"]
    /\ \E mine, other \in store \cap pre["w1"], new \in store \ pre["w1"] :
          /\ mine.id = GlobusId(req["w1"])
          /\ Lower(mine.key) # Lower(req["w1"].key)
          /\ mine.ts # new.ts
          /\ other.id # GlobusId(req["w1"])

KeyPositions(params) == {j \in 1..Len(params) : j % 2 = 1}

\* the position of the last pair of the batch that writes the key at j
LastWriteOf(params, j) ==
    CHOOSE l \in KeyPositions(params) :
        /\ Lower(params[l]) = Lower(params[j])
        /\ \A m \in KeyPositions(params) : Lower(params[m]) = Lower(params[j]) => m <= l

\* C13: while an upsert-many of M pairs is being served, a read of another
\* thread (get, find-named, get-all) returns what the committed rows give at
\* the instant of its statement, and the rows of the batch's keys change in
\* no step of the batch but its commit, which makes all M pairs visible at
\* once: a read sees none of the batch's writes or all of them.
C13_BatchVisibleWhollyOrNotAtAll ==
    [][/\ \A p \in Procs :
             req[p].op = "upsert_many" /\ pc[p] \in {"connect", "execute", "commit"}
                 /\ pc'[p] # pc[p] =>
                 LET id == GlobusId(req[p])
                     params == ParamList(req[p].body.items)
                 IN  (\E j \in KeyPositions(params) :
                          RowsOf(store', id, params[j]) # RowsOf(store, id, params[j]))
                     => /\ pc[p] = "commit" /\ pc'[p] = "done" /\ out'[p].kind = "ok"
                        /\ \A j \in KeyPositions(params) :
                              LET l == LastWriteOf(params, j)
                              IN  RowsOf(store', id, params[j])
                                      = {Row(id, params[l], params[l + 1], txn[p].now)}
       /\ \A q \in Procs :
             /\ req[q].op \in ReadOps
             /\ pc[q] = "execute" /\ pc'[q] = "done" /\ conn'[q].errors = 0
             => out'[q] \in ReadResults(store, req[q])
      ]_vars

\* an upsert-many of two pairs has executed its statement and not committed,
\* and a find-named for the same two keys holds its connection: neither pair
\* is in the committed rows it is about to read
C13_Witness ==
    /\ pc["w1"] = "commit" /\ req["w1"].op = "upsert_many"
    /\ Len(req["w1"].body.items) = 2
    /\ txn["w1"].stmt = "upsert_many"
    /\ pc["w2"] = "execute" /\ req["w2"].op = "find"
    /\ GlobusId(req["w2"]) = GlobusId(req["w1"])
    /\ \A i \in 1..2 : RowsOf(store, "U1", RequestedKeys(req["w2"])[i]) = {}

\* C14: when upserts of one identity and key run at the same time, each
\* writer ends with success or with an error the data store reported; the
\* step that commits a successful upsert leaves its value as the value
\* stored, so the value stored is that of the last commit; and the row of an
\* identity and key changes in no step but the commit of a successful write
\* of that identity and key.
C14_LastCommittedWriteWins ==
    /\ [](\A p \in Procs :
              Done(p, "upsert") /\ Resolved(req[p]) /\ req[p].is_json =>
                  out[p].kind \in {"ok", "DataStoreQuery", "MySQLError"})
    /\ [][/\ \A p \in Procs :
                WriteSucceeds(p) /\ req[p].op = "upsert" =>
                    RowsOf(store', GlobusId(req[p]), req[p].key)
                        = {Row(GlobusId(req[p]), req[p].key, Dumps(req[p].body), txn[p].now)}
          /\ \A id \in Identities, k \in ValidKeys :
                RowsOf(store', id, k) # RowsOf(store, id, k) =>
                    \E p \in Procs :
                        /\ WriteSucceeds(p)
                        /\ <<id, Lower(k)>> \in WriteKeys(req[p])
         ]_vars

\* two upserts of one key with different values overlap: the second thread's
\* has committed after the first thread's call began, and the first thread's
\* statement has executed and is about to commit
C14_Witness ==
    /\ pc["w1"] = "commit" /\ req["w1"].op = "upsert"
    /\ Done("w2", "upsert") /\ out["w2"].kind = "ok"
    /\ GlobusId(req["w1"]) = GlobusId(req["w2"])
    /\ req["w1"].key = req["w2"].key
    /\ req["w1"].body # req["w2"].body
    /\ RowsOf(pre["w1"], "U1", req["w1"].key) # RowsOf(store, "U1", req["w1"].key)
    /\ \E row \in RowsOf(store, "U1", req["w1"].key) : row.value = Dumps(req["w2"].body)

(***************************************************************************)
(* Claims about batch upserts with empty values (specification SpecValues).*)
(***************************************************************************)
\* a document that is empty: an empty object, an empty array, null
EmptyDocument(v) == v \in {EmptyObj, EmptyArr, JNull}

\* a pair of request r has an empty value
HasEmptyValue(r) ==
    /\ r.body.t = "list"
    /\ \E i \in 1..Len(r.body.items) :
          /\ ~MalformedEntry(r.body.items[i])
          /\ EmptyDocument(Member(r.body.items[i], "value"))

\* C16: an upsert-many with a pair whose value is an empty object, an empty
\* array or null fails with ValueFormatError, and the table holds the rows it
\* held before the call (the data store reporting no error of its own).
C16_BatchRejectsEmptyValue ==
    \A p \in Procs :
        /\ Done(p, "upsert_many")
        /\ HasEmptyValue(req[p])
        /\ out[p].kind \notin {"DataStoreQuery", "MySQLError"}
        => out[p].kind = "ValueFormat" /\ store = pre[p]

(***************************************************************************)
(* Claims about connections (specification SpecConcurrent).                *)
(***************************************************************************)
\* the threads that hold a connection
Holders == {p \in Procs : conn[p].open}

C27_HelperInitializedOnce ==
    /\ helperInstances <= 1
    /\ \A t \in Constructors :
          /\ ctor[t].at = "checked" => ctor[t].locked
          /\ ctor[t].at = "UKVConfigurationException" => ~ctor[t].initialized
                                                          /\ helperInstances = 0
    /\ \A t1, t2 \in Constructors :
          ctor[t1].at = "constructed" /\ ctor[t2].at = "constructed"
              => ctor[t1].authHelper = ctor[t2].authHelper

(***************************************************************************)
(* Claims about deletes at the same time (specification SpecConcurrent).   *)
(***************************************************************************)
\* both threads have ended a delete of one record, which existed when each
\* of the two calls began, and each call ran during the other
BothDeleted ==
    /\ Done("w1", "delete") /\ Done("w2", "delete")
    /\ "w2" \in conn["w1"].during /\ "w1" \in conn["w2"].during
    /\ GlobusId(req["w1"]) = GlobusId(req["w2"])
    /\ Lower(req["w1"].key) = Lower(req["w2"].key)
    /\ \A p \in Procs : RowsOf(pre[p], GlobusId(req[p]), req[p].key) # {}

StoreErrors == {"DataStoreQuery", "MySQLError"}

====
